---- MODULE Spec2Model ----
(***************************************************************************)
(* llvm::ocamlDemangle (llvm/lib/Demangle/OcamlDemangle.cpp).              *)
(*                                                                         *)
(* Bytes are the integers 0..255 (the unsigned value of a char).  Indices  *)
(* are the C indices: sym[0..len-1] is the text, sym[len] the terminator,  *)
(* result[0..len] the malloc'ed buffer.  One action per statement group of *)
(* the function; each loop iteration is one step.                          *)
(*                                                                         *)
(* isdigit/isxdigit are applied to plain chars.  For a byte >= 0x80 on a   *)
(* signed-char target the argument is negative; glibc, musl, the BSD/macOS *)
(* libc and the UCRT all answer 0 there (and 0xFF is EOF, for which 0 is   *)
(* the defined answer), so both classify such a byte as "no digit".        *)
(***************************************************************************)
EXTENDS Integers, Sequences, FiniteSets, TLC

\* Longest post-prefix body drawn from Alphabet.
MaxBody == 5

\* ------------------------------------------------------------- constants
Underscore == 95
Dollar == 36
Dot == 46
NUL == 0
\* mutant: the tag is taken to be three bytes long
PrefixSkipShort == 4 - 1
PrefixSkip == 4
\* mutant: the assertion is off by one, assert(len >= 4)
MinLenOff == 5 - 1
MinLen == 5
\* content of a byte of the buffer that no statement has written yet
Uninit == 0 - 1

\* ---------------------------------------------------------------- inputs
\* '_' '$' '3' '1' 'g': the two rule triggers, two digits, a letter that is no
\* hex digit.
Alphabet == {95, 36, 51, 49, 103}
HexChars == (48..57) \cup (97..102) \cup (65..70)
Caml == <<99, 97, 109, 108>>
\* "caml", and a tag made of rule triggers that ends in '_': "_$3_"
Prefixes == {Caml, <<95, 36, 51, 95>>}
SeqsUpTo(S, n) == UNION {[1..k -> S] : k \in 0..n}
\* inputs shorter than the tag
ShortInputs == {SubSeq(p, 1, k) : p \in Prefixes, k \in 0..3}
BodyInputs == {p \o b : p \in Prefixes, b \in SeqsUpTo(Alphabet, MaxBody)}
\* "caml$XY" for every pair of hex digits, either letter case
EscInputs == {Caml \o <<Dollar, h1, h2>> : h1 \in HexChars, h2 \in HexChars}
\* camlFoo__Bar_42 camlFoo_42 camlFoo42 caml$gg caml$g$41 caml$__
\* camlg_a camlg_1a camlg_a1 caml$5f1 camla_1$00g
Examples ==
  { Caml \o <<70, 111, 111, 95, 95, 66, 97, 114, 95, 52, 50>>,
    Caml \o <<70, 111, 111, 95, 52, 50>>,
    Caml \o <<70, 111, 111, 52, 50>>,
    Caml \o <<36, 103, 103>>,
    Caml \o <<36, 103, 36, 52, 49>>,
    Caml \o <<36, 95, 95>>,
    Caml \o <<103, 95, 97>>,
    Caml \o <<103, 95, 49, 97>>,
    Caml \o <<103, 95, 97, 49>>,
    Caml \o <<36, 53, 102, 49>>,
    Caml \o <<97, 95, 49, 36, 48, 48, 103>> }
Inputs == ShortInputs \cup BodyInputs \cup EscInputs \cup Examples

\* ----------------------------------------------------------------- state
VARIABLES
  sym,      \* the argument: the bytes before its terminator
  ndebug,   \* whether the translation unit is built with NDEBUG
  pc,       \* position in the function
  i,        \* input cursor
  j,        \* output cursor
  result,   \* the buffer, a function on 0..len
  reads,    \* history: indices of sym read so far
  writes,   \* history: indices of result written so far
  steps,    \* history: one record per iteration of the main scan
  scanOut   \* history: result[0..j-1] when the main scan ended

vars == <<sym, ndebug, pc, i, j, result, reads, writes, steps, scanOut>>

\* ------------------------------------------------------------- functions
len == Len(sym)

\* sym[k]; beyond the terminator the content is indeterminate
SymAt(k) == IF k < len THEN sym[k + 1] ELSE IF k = len THEN NUL ELSE Uninit

IsDigit(c) == c >= 48 /\ c <= 57

\* mutant: isalnum in place of isxdigit
IsXDigitAlnum(c) == IsDigit(c) \/ (c >= 97 /\ c <= 122) \/ (c >= 65 /\ c <= 90)

IsXDigit(c) == IsDigit(c) \/ (c >= 97 /\ c <= 102) \/ (c >= 65 /\ c <= 70)

Hex(c) ==
  IF c >= 48 /\ c <= 57 THEN c - 48
  ELSE IF c >= 97 /\ c <= 102 THEN c - 97 + 10
  ELSE c - 65 + 10

RECURSIVE BitOr(_, _)
BitOr(a, b) ==
  IF a = 0 THEN b
  ELSE IF b = 0 THEN a
  ELSE (IF a % 2 = 1 \/ b % 2 = 1 THEN 1 ELSE 0) + 2 * BitOr(a \div 2, b \div 2)

\* (hex(c1) << 4) | hex(c2), stored into a char
EscByte(c1, c2) == BitOr(Hex(c1) * 16, Hex(c2)) % 256

\* mutant: the second byte of the pair is not tested
SepCondLoose(k) == SymAt(k) = Underscore

SepCond(k) == SymAt(k) = Underscore /\ SymAt(k + 1) = Underscore

EscCond(k) == SymAt(k) = Dollar /\ IsXDigit(SymAt(k + 1)) /\ IsXDigit(SymAt(k + 2))

\* mutant: & in place of &&, all three bytes are read at every position
CondReadsEager(k) == {k, k + 1, k + 2}

\* the indices of sym the two conditions read at position k (&& short-circuits)
CondReads(k) ==
  {k}
  \cup (IF SymAt(k) = Underscore THEN {k + 1} ELSE {})
  \cup (IF ~SepCond(k) /\ SymAt(k) = Dollar
        THEN {k + 1} \cup (IF IsXDigit(SymAt(k + 1)) THEN {k + 2} ELSE {})
        ELSE {})

RECURSIVE CStrFrom(_, _)
CStrFrom(buf, k) ==
  IF k \notin DOMAIN buf \/ buf[k] = NUL THEN <<>>
  ELSE <<buf[k]>> \o CStrFrom(buf, k + 1)

\* the returned char*: the bytes of result before its first terminator
ret == CStrFrom(result, 0)

\* result[0..n-1]
Written(buf, n) == [k \in 1..n |-> buf[k - 1]]

\* ----------------------------------------------------------------- steps
Init ==
  /\ sym \in Inputs
  /\ ndebug \in BOOLEAN
  /\ pc = "entry"
  /\ i = 0
  /\ j = 0
  /\ result = <<>>
  /\ reads = {}
  /\ writes = {}
  /\ steps = <<>>
  /\ scanOut = <<>>

\* assert(len >= 5) fails
AssertFail ==
  /\ pc = "entry"
  /\ ~ndebug
  /\ ~(len >= MinLen)
  /\ pc' = "aborted"
  /\ UNCHANGED <<sym, ndebug, i, j, result, reads, writes, steps, scanOut>>

\* the assertion passes or is compiled out; malloc(len + 1); i = 4
Enter ==
  /\ pc = "entry"
  /\ ndebug \/ len >= MinLen
  /\ result' = [k \in 0..len |-> Uninit]
  /\ i' = PrefixSkip
  /\ j' = 0
  /\ pc' = "scan"
  /\ UNCHANGED <<sym, ndebug, reads, writes, steps, scanOut>>

Emit(b, adv, rule) ==
  /\ result' = [k \in DOMAIN result |-> IF k = j THEN b ELSE result[k]]
  /\ writes' = writes \cup {j}
  /\ reads' = reads \cup CondReads(i)
  /\ steps' = Append(steps, [at |-> i, out |-> j, rule |-> rule])
  /\ j' = j + 1
  /\ i' = i + adv
  /\ UNCHANGED <<sym, ndebug, pc, scanOut>>

\* mutant: the separator rule advances i by 3
ScanSeparatorSkip ==
  /\ pc = "scan"
  /\ i < len
  /\ SepCond(i)
  /\ Emit(Dot, 3, "sep")

\* "__" -> "."
ScanSeparator ==
  /\ pc = "scan"
  /\ i < len
  /\ SepCond(i)
  /\ Emit(Dot, 2, "sep")

\* "$xx" is a hex-encoded character
ScanEscape ==
  /\ pc = "scan"
  /\ i < len
  /\ ~SepCond(i)
  /\ EscCond(i)
  /\ Emit(EscByte(SymAt(i + 1), SymAt(i + 2)), 3, "esc")

ScanLiteral ==
  /\ pc = "scan"
  /\ i < len
  /\ ~SepCond(i)
  /\ ~EscCond(i)
  /\ Emit(SymAt(i), 1, "lit")

\* the loop exits; result[j] = '\0'
ScanEnd ==
  /\ pc = "scan"
  /\ ~(i < len)
  /\ result' = [k \in DOMAIN result |-> IF k = j THEN NUL ELSE result[k]]
  /\ writes' = writes \cup {j}
  /\ scanOut' = Written(result, j)
  /\ pc' = "trim"
  /\ UNCHANGED <<sym, ndebug, i, j, reads, steps>>

TrimCond == j # 0 /\ IsDigit(result[j - 1])

TrimSkip ==
  /\ pc = "trim"
  /\ ~TrimCond
  /\ pc' = "done"
  /\ UNCHANGED <<sym, ndebug, i, j, result, reads, writes, steps, scanOut>>

TrimBegin ==
  /\ pc = "trim"
  /\ TrimCond
  /\ pc' = "back"
  /\ UNCHANGED <<sym, ndebug, i, j, result, reads, writes, steps, scanOut>>

\* while (--j) { if (!isdigit(result[j])) break; }: the iteration continues
TrimBack ==
  /\ pc = "back"
  /\ j - 1 # 0
  /\ IsDigit(result[j - 1])
  /\ j' = j - 1
  /\ UNCHANGED <<sym, ndebug, pc, i, result, reads, writes, steps, scanOut>>

\* the loop ends: --j is 0, or result[j] is no digit
TrimStop ==
  /\ pc = "back"
  /\ (j - 1 = 0 \/ ~IsDigit(result[j - 1]))
  /\ j' = j - 1
  /\ pc' = "cut"
  /\ UNCHANGED <<sym, ndebug, i, result, reads, writes, steps, scanOut>>

\* mutant: the byte the backward scan stopped at is not compared with '_'
CutCondAny == ~IsDigit(result[j])

CutCond == result[j] = Underscore

TrimCut ==
  /\ pc = "cut"
  /\ CutCond
  /\ result' = [k \in DOMAIN result |-> IF k = j THEN NUL ELSE result[k]]
  /\ writes' = writes \cup {j}
  /\ pc' = "done"
  /\ UNCHANGED <<sym, ndebug, i, j, reads, steps, scanOut>>

TrimKeep ==
  /\ pc = "cut"
  /\ ~CutCond
  /\ pc' = "done"
  /\ UNCHANGED <<sym, ndebug, i, j, result, reads, writes, steps, scanOut>>

Next ==
  \/ AssertFail
  \/ Enter
  \/ ScanSeparator
  \/ ScanEscape
  \/ ScanLiteral
  \/ ScanEnd
  \/ TrimSkip
  \/ TrimBegin
  \/ TrimBack
  \/ TrimStop
  \/ TrimCut
  \/ TrimKeep

Spec == Init /\ [][Next]_vars

\* the function is straight-line sequential code: a step that can be taken is taken
FairSpec == Spec /\ WF_vars(Next)

TypeOK ==
  /\ pc \in {"entry", "aborted", "scan", "trim", "back", "cut", "done"}
  /\ i \in 0..(len + 4)
  /\ j \in 0..(len + 1)

\* ------------------------------------------------- vocabulary of the claims
\* the post-prefix body of the input
Body == SubSeq(sym, 5, len)
DecDigits == 48..57
Range(q) == {q[k] : k \in 1..Len(q)}
\* the value of a hex digit, by table
HexVal(c) ==
  CASE c \in 48..57 -> c - 48
    [] c \in {97, 65} -> 10
    [] c \in {98, 66} -> 11
    [] c \in {99, 67} -> 12
    [] c \in {100, 68} -> 13
    [] c \in {101, 69} -> 14
    [] c \in {102, 70} -> 15
\* the rules a scan iteration applied
Rules == {steps[k].rule : k \in 1..Len(steps)}
Scanned == pc \in {"trim", "back", "cut", "done"}

\* ---------------------------------------------------------------------- C1
\* C1: for an input of length len >= 5 the output cursor never runs ahead of
\* the input cursor less the 4-byte tag (j <= i - 4), every write to result,
\* the terminators included, has an index in 0..len, and the returned string
\* has at most len - 4 bytes.
C1_OutputBound ==
  len >= 5 =>
    /\ pc \in {"scan", "trim"} => j <= i - 4
    /\ writes \subseteq 0..len
    /\ pc = "done" => Len(ret) <= len - 4

\* a pass-through decode: the bound is met with equality
C1_Witness == pc = "done" /\ len >= 6 /\ Len(ret) = len - 4 /\ (len - 4) \in writes

\* ---------------------------------------------------------------------- C2
\* C2: for an input of length len >= 5 no index of sym beyond len (the
\* terminator) is read, the separator rule is applied at i only when
\* i + 1 < len and the escape rule only when i + 2 < len.
C2_NoOverread ==
  len >= 5 =>
    /\ reads \subseteq 0..len
    /\ \A k \in 1..Len(steps) :
         /\ steps[k].rule = "sep" => steps[k].at + 1 < len
         /\ steps[k].rule = "esc" => steps[k].at + 2 < len

\* a '$' and one hex digit are the last two bytes: the scan read the terminator
C2_Witness ==
  /\ pc = "done"
  /\ len >= 6
  /\ sym[len - 1] = 36
  /\ sym[len] \in HexChars
  /\ len \in reads

\* ---------------------------------------------------------------------- C3
\* the suffix trim as the claim states it, on a sequence of bytes
TrailingDigits(m) ==
  Cardinality({d \in 1..Len(m) : \A k \in (Len(m) - d + 1)..Len(m) : m[k] \in DecDigits})
TrimOf(m) ==
  LET d == TrailingDigits(m)
  IN  IF d >= 1 /\ d < Len(m) /\ m[Len(m) - d] = 95
      THEN SubSeq(m, 1, Len(m) - d - 1)
      ELSE m

\* C3: the returned string is the main scan's output with a trailing
\* underscore-plus-digits removed, and is that output unchanged in every other
\* case.
C3_SuffixTrim == pc = "done" => ret = TrimOf(scanOut)

\* ---------------------------------------------------------------------- C4
\* C4: "caml$XY", X and Y hex digits of either case, decodes to the one byte
\* 16 * X + Y, for each of the 256 byte values.
C4_EscapeRoundTrip ==
  (pc = "done" /\ sym \in EscInputs) => ret = <<16 * HexVal(sym[6]) + HexVal(sym[7])>>

\* ---------------------------------------------------------------------- C5
HasSeparator(b) == \E k \in 1..(Len(b) - 1) : b[k] = 95 /\ b[k + 1] = 95
HasEscape(b) ==
  \E k \in 1..(Len(b) - 2) : b[k] = 36 /\ b[k + 1] \in HexChars /\ b[k + 2] \in HexChars
HasNumericSuffix(b) ==
  \E k \in 1..(Len(b) - 1) : b[k] = 95 /\ \A m \in (k + 1)..Len(b) : b[m] \in DecDigits
Plain(b) == ~HasSeparator(b) /\ ~HasEscape(b) /\ ~HasNumericSuffix(b)

\* C5: an input of length >= 5 whose body has no "__", no '$' followed by two
\* hex digits and no trailing underscore-plus-digits decodes to its body,
\* whatever the four tag bytes are.
C5_PassThrough == (pc = "done" /\ len >= 5 /\ Plain(Body)) => ret = Body

\* a plain body that holds both triggers and ends in a digit, under a tag
\* other than "caml"
C5_Witness ==
  /\ pc = "done"
  /\ len >= 5
  /\ Plain(Body)
  /\ {95, 36} \subseteq Range(Body)
  /\ sym[len] \in DecDigits
  /\ SubSeq(sym, 1, 4) # Caml

\* ---------------------------------------------------------------------- C6
\* C6: an input of length 4 or less stops at the precondition check and
\* produces no output; no input of length >= 5 stops there.
C6_MinLength ==
  /\ len <= 4 => pc \in {"entry", "aborted"}
  /\ len >= 5 => pc # "aborted"

\* ---------------------------------------------------------------------- C7
\* C7, as stated: an input of length exactly 4 is decoded, without a crash, to
\* the empty string.
C7_BareTagDecodes ==
  len = 4 => /\ pc # "aborted"
             /\ pc = "done" => ret = <<>>

\* C7, amended: an input of length exactly 4 fails the assertion when
\* assertions are compiled in and yields no output; built with NDEBUG it
\* decodes to the empty string, with no scan iteration, the terminator at
\* result[0] as the only write, and no trim.
C7_BareTag ==
  len = 4 =>
    /\ ~ndebug => pc \in {"entry", "aborted"}
    /\ ndebug =>
         /\ pc \in {"entry", "scan", "trim", "done"}
         /\ steps = <<>>
         /\ reads = {}
         /\ pc = "done" => (ret = <<>> /\ writes = {0} /\ j = 0)

C7_Witness == len = 4 /\ ndebug /\ pc = "done" /\ ret = <<>>

\* ---------------------------------------------------------------------- C8
\* C8: for an input of length len >= 5 the function returns: no assertion
\* failure, each scan iteration advances i by 1, 2 or 3 and not past len, the
\* scan is left with i = len, the backward scan keeps j >= 0, and the return
\* is reached.
C8_Totality ==
  /\ [][(len >= 5 /\ pc = "scan" /\ pc' = "scan") =>
          ((i' - i) \in {1, 2, 3} /\ i' <= len)]_vars
  /\ [](len >= 5 => (pc # "aborted" /\ j >= 0 /\ (Scanned => i = len)))
  /\ [](len >= 5 => <>(pc = "done"))

\* a separator and an escape were decoded and the backward scan ran down to
\* position 0
C8_Witness ==
  /\ pc = "done"
  /\ len >= 5
  /\ {"sep", "esc"} \subseteq Rules
  /\ j = 0
  /\ Len(scanOut) >= 2

\* ---------------------------------------------------------------------- C9
\* a '$' at C index k that does not start an escape inside the input
FailedEscape(k) ==
  /\ k < len
  /\ sym[k + 1] = 36
  /\ ~(k + 2 < len /\ sym[k + 2] \in HexChars /\ sym[k + 3] \in HexChars)

\* C9: at a '$' that is not followed by two hex digits inside the input the
\* scan writes one '$', advances i by one and goes on scanning at i + 1;
\* "$gg" decodes to "$gg", "$__" to "$." and "$g$41" to "$gA".
C9_FailedEscape ==
  /\ [][(pc = "scan" /\ FailedEscape(i)) =>
          (i' = i + 1 /\ j' = j + 1 /\ result'[j] = 36 /\ pc' = "scan")]_vars
  /\ []((pc = "done" /\ sym = Caml \o <<36, 103, 103>>) => ret = <<36, 103, 103>>)
  /\ []((pc = "done" /\ sym = Caml \o <<36, 95, 95>>) => ret = <<36, 46>>)
  /\ []((pc = "done" /\ sym = Caml \o <<36, 103, 36, 52, 49>>) => ret = <<36, 103, 65>>)

\* a failed escape whose next byte then starts a separator or an escape
C9_Witness ==
  /\ pc = "done"
  /\ \E k \in 1..(Len(steps) - 1) :
       /\ FailedEscape(steps[k].at)
       /\ steps[k + 1].at = steps[k].at + 1
       /\ steps[k + 1].rule \in {"sep", "esc"}

\* --------------------------------------------------------------------- C10
\* the maximal runs of '_' in the body: <<s, k>>, C index of the first and length
IsUnderscoreAt(p) == p >= 4 /\ p < len /\ sym[p + 1] = 95
Runs ==
  {r \in (4..(len - 1)) \X (1..len) :
     /\ \A p \in r[1]..(r[1] + r[2] - 1) : IsUnderscoreAt(p)
     /\ ~IsUnderscoreAt(r[1] - 1)
     /\ ~IsUnderscoreAt(r[1] + r[2])}
\* the output cursor when the scan stood at input position p; no value if it never did
OutAt(p) ==
  IF p = len THEN {Len(scanOut)}
  ELSE {steps[k].out : k \in {n \in 1..Len(steps) : steps[n].at = p}}

\* C10: the main scan turns a maximal run of k underscores of the body into
\* k div 2 dots followed by k mod 2 underscores, and nothing else.
C10_GreedySeparator ==
  (Scanned /\ len >= 5) =>
    \A r \in Runs :
      LET s == r[1]
          k == r[2]
      IN  \E o \in OutAt(s) :
            /\ \A m \in 1..(k \div 2) : scanOut[o + m] = 46
            /\ (k % 2 = 1) => scanOut[o + (k \div 2) + 1] = 95
            /\ OutAt(s + k) = {o + (k \div 2) + (k % 2)}

\* a run of three underscores inside the body was decoded
C10_Witness ==
  /\ pc = "done"
  /\ \E r \in Runs : r[2] = 3 /\ r[1] > 4 /\ r[1] + 3 < len
====
